---- MODULE Spec2Model ----
(***************************************************************************)
(* Model of art/defences/detector/evasion/binary_detector.py:              *)
(* BinaryInputDetector and BinaryActivationDetector.  The two wrappers     *)
(* delegate to injected classifier objects; those objects are opaque, so   *)
(* every call on them answers nondeterministically (a value or an error):  *)
(* get_activations may return any batch, the one it was given included.    *)
(* Every call a wrapper makes on an injected object is recorded in trace.  *)
(* The caller is single-threaded: it makes one call, looks at what came    *)
(* back, drops it (Discard) and only then does the next thing.             *)
(***************************************************************************)
EXTENDS Integers, Sequences, FiniteSets, TLC

\* ---- bounds of the model ------------------------------------------------
MaxSamples == 2
MaxScore == 1
MaxLayers == 2
MaxFits == 1

\* ---- program constants --------------------------------------------------
NumClasses == 2
DefaultBatchSize == 128
DefaultNbEpochs == 20

\* ---- input domains ------------------------------------------------------
LayerPool == <<"a", "b", "c", "d">>
Names == {LayerPool[i] : i \in 1..MaxLayers}
AbsentName == "z"
\* Sample batches (arrays), named by identity.  What get_activations returns
\* is up to the feature extractor: any batch, also the very x it was given.
Inputs == {"x1", "x2"}
Activations == Inputs \cup {"act1"}
Labels == {"y1", "y2"}
\* What a call on an injected object may raise.
Errors == {"RuntimeError", "TypeError"}
BatchSizes == {32, DefaultBatchSize}
NbEpochs == {5, DefaultNbEpochs}
KwargsChoices == {<<>>, [verbose |-> 1]}
Scores == 0..MaxScore
Rows == [1..NumClasses -> Scores]
\* detector.predict answers with rows of scores, as many as it likes.
PredictionArrays == UNION {[1..n -> Rows] : n \in 0..MaxSamples}

\* Lists of distinct layer names, at most MaxLayers long.
NameLists ==
  {l \in UNION {[1..n -> Names] : n \in 0..MaxLayers} :
     \A i, j \in DOMAIN l : i # j => l[i] # l[j]}

\* classifier.layer_names is either None or a list of names.
NoLayerNames == [none |-> TRUE, list |-> <<>>]
LayerNamesChoices == {NoLayerNames} \cup {[none |-> FALSE, list |-> l] : l \in NameLists}

\* The layer argument is an int or a str (isinstance(layer, int)).
IntLayers == {[int |-> i] : i \in -2..(MaxLayers + 1)}
StrLayers == {[str |-> s] : s \in Names \cup {AbsentName}}
isinstance_int(layer) == "int" \in DOMAIN layer

\* ---- values -------------------------------------------------------------
None == "None"
Raised(e) == [raised |-> TRUE, val |-> e]
Returned(v) == [raised |-> FALSE, val |-> v]
\* How classifier.get_activations, detector.fit and detector.predict may answer.
ActivationResponses == {Raised(e) : e \in Errors} \cup {Returned(a) : a \in Activations}
FitResponses == {Raised(e) : e \in Errors} \cup {Returned(None)}
PredictResponses == {Raised(e) : e \in Errors} \cup {Returned(p) : p \in PredictionArrays}

\* One invocation on an injected object: positional args, keyword args and
\* how the object answered.
Invocation(obj, op, args, kw, resp) ==
  [obj |-> obj, op |-> op, args |-> args, kw |-> kw,
   raised |-> resp.raised, ret |-> resp.val]

\* ---- numpy --------------------------------------------------------------
\* A variant that breaks ties towards the last index.
argmax_last(row) ==
  CHOOSE i \in 0..(Len(row) - 1) :
    \A j \in 0..(Len(row) - 1) :
      /\ row[i + 1] >= row[j + 1]
      /\ (j > i => row[j + 1] < row[i + 1])

\* np.argmax of one row: the 0-based index of the first occurrence of the max.
argmax(row) ==
  CHOOSE i \in 0..(Len(row) - 1) :
    \A j \in 0..(Len(row) - 1) :
      /\ row[i + 1] >= row[j + 1]
      /\ (j < i => row[j + 1] < row[i + 1])

\* np.argmax(predictions, axis=1)
np_argmax_axis1(predictions) ==
  [i \in 1..Len(predictions) |-> argmax(predictions[i])]

\* ndarray.astype(bool): nonzero is True.
astype_bool(v) == [i \in 1..Len(v) |-> v[i] # 0]

\* A report holding the thresholded (one-hot) scores instead of the raw ones.
report_onehot(predictions) ==
  [predictions |-> [i \in 1..Len(predictions) |->
                      [c \in 1..Len(predictions[i]) |->
                         IF c = argmax(predictions[i]) + 1 THEN 1 ELSE 0]]]

\* report = {"predictions": predictions}
make_report(predictions) == [predictions |-> predictions]

\* ---- python list helpers ------------------------------------------------
\* list[i] with python's negative indexing; IndexError outside.
list_getitem(list, i) ==
  IF 0 <= i /\ i < Len(list) THEN list[i + 1]
  ELSE IF i < 0 /\ -i <= Len(list) THEN list[Len(list) + i + 1]
  ELSE "IndexError"

\* A variant that only looks at the first element.
list_contains_first(list, x) == Len(list) > 0 /\ list[1] = x

\* `x in list`
list_contains(list, x) == \E i \in 1..Len(list) : list[i] = x

\* ---- outcomes of a wrapper call -----------------------------------------
Raise(e) == [kind |-> "raise", val |-> e]
Return(v) == [kind |-> "return", val |-> v]
ValueError(msg, info) == [type |-> "ValueError", msg |-> msg, info |-> info]
NoLayerNamesMsg == "No layer names identified."
RangeMsg == "Layer index {layer} is outside of range (0 to {len - 1} included)."
NotInGraphMsg == "Layer name {layer} is not part of the graph."

\* ---- the objects --------------------------------------------------------
NoObject == [class |-> "none"]
DetectorRef == "detector"
ClassifierRef == "classifier"

VARIABLES
  self,           \* the wrapper object the caller holds (NoObject before/after a failed construction)
  layer_names,    \* classifier.layer_names of the injected feature extractor
  call,           \* the wrapper operation called last, with its arguments
  trace,          \* the invocations that operation made on the injected objects, in order
  outcome,        \* what that operation returned or raised
  resolved,       \* the layer name stored by the constructor's last statement
  detector_fits,  \* how often detector.fit has been invoked (the detector's trained state)
  fit_reached     \* how many wrapper fit calls got as far as detector.fit

vars == <<self, layer_names, call, trace, outcome, resolved, detector_fits, fit_reached>>

\* ---- BinaryInputDetector ------------------------------------------------
BinaryInputDetector_init(detector) ==
  [self |-> [class |-> "BinaryInputDetector", detector |-> detector],
   trace |-> <<>>,
   outcome |-> Return(None)]

BinaryInputDetector_fit(slf, x, y, batch_size, nb_epochs, kwargs, r_fit) ==
  LET c == Invocation(slf.detector, "fit", <<x, y>>,
                      [batch_size |-> batch_size, nb_epochs |-> nb_epochs] @@ kwargs, r_fit)
  IN [self |-> slf,
      trace |-> <<c>>,
      outcome |-> IF r_fit.raised THEN Raise(r_fit.val) ELSE Return(None)]

\* A variant that trains the detector on the batch before predicting.
BinaryInputDetector_detect_training(slf, x, batch_size, kwargs, r_pred) ==
  LET f == Invocation(slf.detector, "fit", <<x, x>>, [batch_size |-> batch_size], Returned(None))
      c == Invocation(slf.detector, "predict", <<x>>, [batch_size |-> batch_size], r_pred)
  IN [self |-> slf,
      trace |-> <<f, c>>,
      outcome |-> IF r_pred.raised THEN Raise(r_pred.val)
                  ELSE Return(<<make_report(r_pred.val), astype_bool(np_argmax_axis1(r_pred.val))>>)]

BinaryInputDetector_detect(slf, x, batch_size, kwargs, r_pred) ==
  LET c == Invocation(slf.detector, "predict", <<x>>, [batch_size |-> batch_size], r_pred)
  IN [self |-> slf,
      trace |-> <<c>>,
      outcome |-> IF r_pred.raised THEN Raise(r_pred.val)
                  ELSE Return(<<make_report(r_pred.val), astype_bool(np_argmax_axis1(r_pred.val))>>)]

\* ---- BinaryActivationDetector -------------------------------------------
\* A variant without the missing-metadata check.
layer_names_is_None_never(ln) == FALSE

\* classifier.layer_names is None
layer_names_is_None(ln) == ln.none

\* A variant without the lower bound.
index_out_of_range_no_lower(layer, len) == layer >= len

\* layer < 0 or layer >= len(classifier.layer_names)
index_out_of_range(layer, len) == layer < 0 \/ layer >= len

\* __init__: the object is partially assigned before validation; a raise
\* leaves the caller without an object.
BinaryActivationDetector_init(classifier, detector, layer, ln) ==
  LET partial == [class |-> "BinaryActivationDetector",
                  classifier |-> classifier, detector |-> detector]
      done(name) == [class |-> "BinaryActivationDetector",
                     classifier |-> classifier, detector |-> detector,
                     _layer_name |-> name]
      fail(err) == [self |-> partial, trace |-> <<>>, outcome |-> Raise(err)]
      ok(name) == [self |-> done(name), trace |-> <<>>, outcome |-> Return(None)]
  IN IF layer_names_is_None(ln)
       THEN fail(ValueError(NoLayerNamesMsg, <<>>))
     ELSE IF isinstance_int(layer)
       THEN IF index_out_of_range(layer.int, Len(ln.list))
              THEN fail(ValueError(RangeMsg, <<layer.int, Len(ln.list) - 1>>))
              ELSE ok(list_getitem(ln.list, layer.int))
     ELSE IF ~list_contains(ln.list, layer.str)
       THEN fail(ValueError(NotInGraphMsg, <<layer.str>>))
     ELSE ok(layer.str)

\* A variant that trains the detector on x itself with the default options.
BinaryActivationDetector_fit_raw(slf, ln, x, y, batch_size, nb_epochs, kwargs, r_act, r_fit) ==
  LET c == Invocation(slf.detector, "fit", <<x, y>>,
                      [batch_size |-> DefaultBatchSize, nb_epochs |-> DefaultNbEpochs] @@ kwargs, r_fit)
  IN [self |-> slf,
      trace |-> <<c>>,
      outcome |-> IF r_fit.raised THEN Raise(r_fit.val) ELSE Return(None)]

BinaryActivationDetector_fit(slf, ln, x, y, batch_size, nb_epochs, kwargs, r_act, r_fit) ==
  LET a == Invocation(slf.classifier, "get_activations",
                      <<x, slf._layer_name, batch_size>>, <<>>, r_act)
      c == Invocation(slf.detector, "fit", <<r_act.val, y>>,
                      [batch_size |-> batch_size, nb_epochs |-> nb_epochs] @@ kwargs, r_fit)
  IN IF r_act.raised
       THEN [self |-> slf, trace |-> <<a>>, outcome |-> Raise(r_act.val)]
       ELSE [self |-> slf,
             trace |-> <<a, c>>,
             outcome |-> IF r_fit.raised THEN Raise(r_fit.val) ELSE Return(None)]

\* A variant that looks the layer up again on every call.
BinaryActivationDetector_detect_lazy(slf, ln, x, batch_size, kwargs, r_act, r_pred) ==
  LET name == IF ln.none \/ Len(ln.list) = 0 THEN slf._layer_name ELSE ln.list[1]
      a == Invocation(slf.classifier, "get_activations", <<x, name, batch_size>>, <<>>, r_act)
      c == Invocation(slf.detector, "predict", <<r_act.val>>, [batch_size |-> batch_size], r_pred)
  IN IF r_act.raised
       THEN [self |-> slf, trace |-> <<a>>, outcome |-> Raise(r_act.val)]
       ELSE [self |-> slf,
             trace |-> <<a, c>>,
             outcome |-> IF r_pred.raised THEN Raise(r_pred.val)
                         ELSE Return(<<make_report(r_pred.val),
                                       astype_bool(np_argmax_axis1(r_pred.val))>>)]

\* A variant that swallows errors and answers with an empty decision.
BinaryActivationDetector_detect_swallow(slf, ln, x, batch_size, kwargs, r_act, r_pred) ==
  LET a == Invocation(slf.classifier, "get_activations",
                      <<x, slf._layer_name, batch_size>>, <<>>, r_act)
      c == Invocation(slf.detector, "predict", <<r_act.val>>, [batch_size |-> batch_size], r_pred)
  IN IF r_act.raised
       THEN [self |-> slf, trace |-> <<a>>, outcome |-> Return(<<make_report(<<>>), <<>>>>)]
       ELSE [self |-> slf,
             trace |-> <<a, c>>,
             outcome |-> IF r_pred.raised THEN Return(<<make_report(<<>>), <<>>>>)
                         ELSE Return(<<make_report(r_pred.val),
                                       astype_bool(np_argmax_axis1(r_pred.val))>>)]

BinaryActivationDetector_detect(slf, ln, x, batch_size, kwargs, r_act, r_pred) ==
  LET a == Invocation(slf.classifier, "get_activations",
                      <<x, slf._layer_name, batch_size>>, <<>>, r_act)
      c == Invocation(slf.detector, "predict", <<r_act.val>>, [batch_size |-> batch_size], r_pred)
  IN IF r_act.raised
       THEN [self |-> slf, trace |-> <<a>>, outcome |-> Raise(r_act.val)]
       ELSE [self |-> slf,
             trace |-> <<a, c>>,
             outcome |-> IF r_pred.raised THEN Raise(r_pred.val)
                         ELSE Return(<<make_report(r_pred.val),
                                       astype_bool(np_argmax_axis1(r_pred.val))>>)]

\* ---- the state machine --------------------------------------------------
Unset == "<unset>"

\* Number of detector.fit invocations in a trace.
fit_invocations(tr) ==
  Cardinality({i \in DOMAIN tr : tr[i].obj = DetectorRef /\ tr[i].op = "fit"})

\* Whether the stored layer name is (still) one of classifier.layer_names.
layer_listed(slf, ln) == ~ln.none /\ list_contains(ln.list, slf._layer_name)

Init ==
  /\ self = NoObject
  /\ layer_names \in LayerNamesChoices
  /\ call = [op |-> "none"]
  /\ trace = <<>>
  /\ outcome = [kind |-> "none"]
  /\ resolved = Unset
  /\ detector_fits = 0
  /\ fit_reached = 0

Idle == call.op = "none"

ConstructInput ==
  /\ Idle
  /\ self = NoObject
  /\ LET res == BinaryInputDetector_init(DetectorRef)
     IN /\ self' = res.self
        /\ trace' = res.trace
        /\ outcome' = res.outcome
  /\ call' = [op |-> "__init__", class |-> "BinaryInputDetector"]
  /\ UNCHANGED <<layer_names, resolved, detector_fits, fit_reached>>

ConstructActivation ==
  /\ Idle
  /\ self = NoObject
  /\ \E layer \in IntLayers \cup StrLayers :
       LET res == BinaryActivationDetector_init(ClassifierRef, DetectorRef, layer, layer_names)
       IN /\ self' = IF res.outcome.kind = "raise" THEN NoObject ELSE res.self
          /\ resolved' = IF res.outcome.kind = "raise" THEN Unset ELSE res.self._layer_name
          /\ trace' = res.trace
          /\ outcome' = res.outcome
          /\ call' = [op |-> "__init__", class |-> "BinaryActivationDetector",
                      layer |-> layer, layer_names |-> layer_names]
  /\ UNCHANGED <<layer_names, detector_fits, fit_reached>>

InputFit ==
  /\ Idle
  /\ self.class = "BinaryInputDetector"
  /\ detector_fits < MaxFits
  /\ \E x \in Inputs, y \in Labels, batch_size \in BatchSizes, nb_epochs \in NbEpochs,
        kwargs \in KwargsChoices, r_fit \in FitResponses :
       LET res == BinaryInputDetector_fit(self, x, y, batch_size, nb_epochs, kwargs, r_fit)
       IN /\ self' = res.self
          /\ trace' = res.trace
          /\ outcome' = res.outcome
          /\ detector_fits' = detector_fits + fit_invocations(res.trace)
          /\ call' = [op |-> "fit", x |-> x, y |-> y, batch_size |-> batch_size,
                      nb_epochs |-> nb_epochs, kwargs |-> kwargs]
  /\ fit_reached' = fit_reached + 1
  /\ UNCHANGED <<layer_names, resolved>>

InputDetect ==
  /\ Idle
  /\ self.class = "BinaryInputDetector"
  /\ \E x \in Inputs, batch_size \in BatchSizes, kwargs \in KwargsChoices :
      \E r_pred \in PredictResponses :
       LET res == BinaryInputDetector_detect(self, x, batch_size, kwargs, r_pred)
       IN /\ self' = res.self
          /\ trace' = res.trace
          /\ outcome' = res.outcome
          /\ detector_fits' = detector_fits + fit_invocations(res.trace)
          /\ call' = [op |-> "detect", x |-> x, batch_size |-> batch_size,
                      kwargs |-> kwargs]
  /\ UNCHANGED <<layer_names, resolved, fit_reached>>

ActivationFit ==
  /\ Idle
  /\ self.class = "BinaryActivationDetector"
  /\ detector_fits < MaxFits
  /\ \E x \in Inputs, y \in Labels, batch_size \in BatchSizes, nb_epochs \in NbEpochs,
        kwargs \in KwargsChoices :
       \E r_act \in ActivationResponses :
        \E r_fit \in IF r_act.raised THEN {Returned(None)} ELSE FitResponses :
         LET res == BinaryActivationDetector_fit(self, layer_names, x, y, batch_size,
                                                 nb_epochs, kwargs, r_act, r_fit)
         IN /\ self' = res.self
            /\ trace' = res.trace
            /\ outcome' = res.outcome
            /\ detector_fits' = detector_fits + fit_invocations(res.trace)
            /\ fit_reached' = fit_reached + (IF r_act.raised THEN 0 ELSE 1)
            /\ call' = [op |-> "fit", x |-> x, y |-> y, batch_size |-> batch_size,
                        nb_epochs |-> nb_epochs, kwargs |-> kwargs]
  /\ UNCHANGED <<layer_names, resolved>>

ActivationDetect ==
  /\ Idle
  /\ self.class = "BinaryActivationDetector"
  /\ \E x \in Inputs, batch_size \in BatchSizes, kwargs \in KwargsChoices,
        r_act \in ActivationResponses :
       \E r_pred \in IF r_act.raised THEN {Returned(<<>>)} ELSE PredictResponses :
         LET res == BinaryActivationDetector_detect(self, layer_names, x, batch_size,
                                                    kwargs, r_act, r_pred)
         IN /\ self' = res.self
            /\ trace' = res.trace
            /\ outcome' = res.outcome
            /\ detector_fits' = detector_fits + fit_invocations(res.trace)
            /\ call' = [op |-> "detect", x |-> x, batch_size |-> batch_size,
                        kwargs |-> kwargs]
  /\ UNCHANGED <<layer_names, resolved, fit_reached>>

\* The caller owns the feature extractor and may replace its layer_names.
SetLayerNames ==
  /\ Idle
  /\ self.class = "BinaryActivationDetector"
  /\ layer_names' \in LayerNamesChoices \ {layer_names}
  /\ UNCHANGED <<self, call, trace, outcome, resolved, detector_fits, fit_reached>>

\* The call has returned or raised; the caller moves on.
Discard ==
  /\ ~Idle
  /\ call' = [op |-> "none"]
  /\ trace' = <<>>
  /\ outcome' = [kind |-> "none"]
  /\ UNCHANGED <<self, layer_names, resolved, detector_fits, fit_reached>>

Next ==
  \/ ConstructInput
  \/ ConstructActivation
  \/ InputFit
  \/ InputDetect
  \/ ActivationFit
  \/ ActivationDetect
  \/ SetLayerNames
  \/ Discard

Spec == Init /\ [][Next]_vars

TypeOK ==
  /\ self.class \in {"none", "BinaryInputDetector", "BinaryActivationDetector"}
  /\ layer_names \in LayerNamesChoices
  /\ call.op \in {"none", "__init__", "fit", "detect"}
  /\ outcome.kind \in {"none", "return", "raise"}
  /\ detector_fits \in 0..MaxFits
  /\ fit_reached \in 0..MaxFits

\* ---- properties ---------------------------------------------------------
IsInput == self.class = "BinaryInputDetector"
IsActivation == self.class = "BinaryActivationDetector"
ConstructedActivation ==
  call.op = "__init__" /\ call.class = "BinaryActivationDetector"
Delegating == call.op \in {"fit", "detect"}
LastInvocation == trace[Len(trace)]

\* C1: when detect returns, is_adversarial has one entry per row of what
\* detector.predict returned, in the same order, and entry i is true exactly
\* when column 1 of row i strictly exceeds column 0 (a tie gives false).
TheoremC1 ==
  (call.op = "detect" /\ outcome.kind = "return") =>
    LET predictions == LastInvocation.ret
        is_adversarial == outcome.val[2]
    IN /\ LastInvocation.op = "predict"
       /\ Len(is_adversarial) = Len(predictions)
       /\ \A i \in 1..Len(predictions) :
            Len(predictions[i]) = NumClasses =>
              (is_adversarial[i] = (predictions[i][2] > predictions[i][1]))

WitnessC1 ==
  /\ call.op = "detect"
  /\ outcome.kind = "return"
  /\ \E i, j \in 1..Len(outcome.val[2]) :
       /\ i < j
       /\ LastInvocation.ret[i][1] = LastInvocation.ret[i][2]
       /\ outcome.val[2][i] = FALSE
       /\ LastInvocation.ret[j][2] > LastInvocation.ret[j][1]
       /\ outcome.val[2][j] = TRUE

\* C2: with an integer layer and a layer_names list, construction succeeds
\* exactly when 0 <= index <= len(layer_names) - 1 and then stores
\* layer_names[index]; every other integer fails with the range error.
TheoremC2 ==
  (ConstructedActivation /\ isinstance_int(call.layer) /\ ~call.layer_names.none) =>
    LET index == call.layer.int
        names == call.layer_names.list
    IN IF 0 <= index /\ index <= Len(names) - 1
         THEN /\ outcome.kind = "return"
              /\ IsActivation
              /\ self._layer_name = names[index + 1]
         ELSE /\ outcome.kind = "raise"
              /\ outcome.val.msg = RangeMsg
              /\ self = NoObject

WitnessC2 ==
  /\ ConstructedActivation
  /\ isinstance_int(call.layer)
  /\ ~call.layer_names.none
  /\ call.layer.int = Len(call.layer_names.list) - 1
  /\ call.layer.int > 0
  /\ outcome.kind = "return"
  /\ self._layer_name = call.layer_names.list[call.layer.int + 1]

\* C3: with a layer name and a layer_names list, construction succeeds and
\* stores exactly that name when it is an element of layer_names, and fails
\* with the "not part of the graph" error when it is not.
TheoremC3 ==
  (ConstructedActivation /\ ~isinstance_int(call.layer) /\ ~call.layer_names.none) =>
    LET name == call.layer.str
        names == call.layer_names.list
    IN IF \E i \in 1..Len(names) : names[i] = name
         THEN /\ outcome.kind = "return"
              /\ IsActivation
              /\ self._layer_name = name
         ELSE /\ outcome.kind = "raise"
              /\ outcome.val.msg = NotInGraphMsg
              /\ self = NoObject

WitnessC3 ==
  /\ ConstructedActivation
  /\ ~isinstance_int(call.layer)
  /\ Len(call.layer_names.list) >= 2
  /\ call.layer_names.list[2] = call.layer.str
  /\ outcome.kind = "return"
  /\ self._layer_name = call.layer.str

\* C4: when layer_names is None, construction fails with the missing-metadata
\* error for every layer argument, integer or name, and yields no object.
TheoremC4 ==
  (ConstructedActivation /\ call.layer_names.none) =>
    /\ outcome.kind = "raise"
    /\ outcome.val.type = "ValueError"
    /\ outcome.val.msg = NoLayerNamesMsg
    /\ self = NoObject

WitnessC4 ==
  /\ ConstructedActivation
  /\ call.layer_names.none
  /\ isinstance_int(call.layer)
  /\ call.layer.int = 0
  /\ outcome.kind = "raise"

\* C5: the report detect returns has the single entry "predictions", and its
\* value is the array detector.predict returned in that call, untransformed.
TheoremC5 ==
  (call.op = "detect" /\ outcome.kind = "return") =>
    LET report == outcome.val[1]
    IN /\ DOMAIN report = {"predictions"}
       /\ LastInvocation.op = "predict"
       /\ LastInvocation.obj = DetectorRef
       /\ report.predictions = LastInvocation.ret

WitnessC5 ==
  /\ call.op = "detect"
  /\ outcome.kind = "return"
  /\ Len(outcome.val[1].predictions) = MaxSamples
  /\ \E i \in 1..Len(outcome.val[1].predictions) :
       outcome.val[1].predictions[i][1] = outcome.val[1].predictions[i][2]

\* C6: the keyword options of a wrapper call reach the detector's
\* corresponding operation: those of fit reach detector.fit, those of detect
\* reach detector.predict.
ClaimC6 ==
  Delegating =>
    \A i \in DOMAIN trace :
      (trace[i].obj = DetectorRef /\ trace[i].op = (IF call.op = "fit" THEN "fit" ELSE "predict")) =>
        \A k \in DOMAIN call.kwargs :
          k \in DOMAIN trace[i].kw /\ trace[i].kw[k] = call.kwargs[k]

\* C7: an error raised by an injected object ends the call with that same
\* error: nothing is invoked after it, no report is returned, and when
\* get_activations fails the detector is not invoked at all.
TheoremC7 ==
  Delegating =>
    /\ \A i \in DOMAIN trace :
         trace[i].raised =>
           /\ i = Len(trace)
           /\ outcome.kind = "raise"
           /\ outcome.val = trace[i].ret
    /\ (outcome.kind = "raise" => LastInvocation.raised)
    /\ (trace[1].op = "get_activations" /\ trace[1].raised) =>
         \A i \in DOMAIN trace : trace[i].obj # DetectorRef

WitnessC7 ==
  /\ IsActivation
  /\ call.op = "detect"
  /\ Len(trace) = 1
  /\ trace[1].op = "get_activations"
  /\ trace[1].raised
  /\ outcome = Raise(trace[1].ret)

\* What C8 has in common in its stated and its amended form: get_activations
\* on x at the resolved layer comes first, the detector is invoked only after
\* it returned and on what it returned (fit with the caller's y, batch_size
\* and nb_epochs), and the classifier is never trained.
ActivationsFirst ==
  (IsActivation /\ Delegating) =>
    /\ Len(trace) >= 1
    /\ trace[1].obj = ClassifierRef
    /\ trace[1].op = "get_activations"
    /\ trace[1].args[1] = call.x
    /\ trace[1].args[2] = resolved
    /\ (~trace[1].raised => (Len(trace) = 2 /\ trace[2].obj = DetectorRef))
    /\ \A i \in DOMAIN trace :
         /\ trace[i].obj = ClassifierRef => trace[i].op = "get_activations"
         /\ trace[i].obj = DetectorRef =>
              /\ i > 1
              /\ ~trace[1].raised
              /\ trace[i].args[1] = trace[1].ret
              /\ trace[i].op = (IF call.op = "fit" THEN "fit" ELSE "predict")
              /\ trace[i].kw.batch_size = call.batch_size
              /\ call.op = "fit" =>
                   /\ trace[i].args[2] = call.y
                   /\ trace[i].kw.nb_epochs = call.nb_epochs

\* C8 as stated: as above, and the detector is never invoked on the raw
\* input x.
ClaimC8 ==
  /\ ActivationsFirst
  /\ (IsActivation /\ Delegating) =>
       \A i \in DOMAIN trace :
         trace[i].obj = DetectorRef => trace[i].args[1] # call.x

\* C8 amended: a fit or detect of the activation detector first invokes
\* classifier.get_activations on x at the resolved layer, and only then the
\* detector, on exactly what get_activations returned (fit with the caller's
\* y, batch_size and nb_epochs); the wrapper never passes x to the detector
\* by itself, so the detector sees x only when get_activations returned x;
\* the classifier is never trained.
TheoremC8 ==
  /\ ActivationsFirst
  /\ (IsActivation /\ Delegating) =>
       \A i \in DOMAIN trace :
         (trace[i].obj = DetectorRef /\ trace[i].args[1] = call.x) =>
           (~trace[1].raised /\ trace[1].ret = call.x)

WitnessC8 ==
  /\ IsActivation
  /\ call.op = "fit"
  /\ call.batch_size # DefaultBatchSize
  /\ call.nb_epochs # DefaultNbEpochs
  /\ Len(trace) = 2
  /\ trace[1].ret # call.x
  /\ trace[2].args[1] = trace[1].ret
  /\ outcome.kind = "return"

\* C9: the stored layer name stays the one resolved at construction, and
\* every get_activations call uses it, whatever happens to layer_names later.
TheoremC9 ==
  IsActivation =>
    /\ self._layer_name = resolved
    /\ \A i \in DOMAIN trace :
         trace[i].op = "get_activations" => trace[i].args[2] = resolved

WitnessC9 ==
  /\ IsActivation
  /\ call.op = "detect"
  /\ Len(trace) = 2
  /\ ~layer_listed(self, layer_names)
  /\ trace[1].args[2] = resolved

\* C10: detect never invokes fit on an injected object and leaves the
\* wrapper's fields and the detector's trained state as they were; the
\* number of detector.fit invocations is the number of wrapper fit calls
\* that reached the detector.
TheoremC10 ==
  /\ [](detector_fits = fit_reached)
  /\ [](call.op = "detect" => \A i \in DOMAIN trace : trace[i].op # "fit")
  /\ [][call'.op = "detect" => (self' = self /\ detector_fits' = detector_fits)]_vars
  /\ [][detector_fits' # detector_fits => call'.op = "fit"]_vars

WitnessC10 ==
  /\ call.op = "detect"
  /\ outcome.kind = "return"
  /\ detector_fits = 1
  /\ fit_reached = 1
====
